---- MODULE Spec2Model ----
(***************************************************************************)
(* A model of the useLiveSession hook (src/hooks/useLiveSession.ts): the   *)
(* duplex voice session of the FluentAI client.  The hook's React state    *)
(* and refs are the variables; every callback of the hook (connect, its    *)
(* continuation after getUserMedia, disconnect, onopen, onmessage, the     *)
(* continuation of onmessage after the awaited decode, onclose, onerror,   *)
(* onended, onaudioprocess) is one action.  The browser and the transport  *)
(* are the environment: audio contexts, the microphone stream, the         *)
(* WebSocket behind ai.live.connect and its promise, the output clock.     *)
(***************************************************************************)
EXTENDS Integers, Sequences, FiniteSets, TLC

(* ------------------------------ bounds --------------------------------- *)
\* connect() calls in one behaviour
MaxConnects == 2
\* inbound messages delivered in one behaviour: of the transcript scenarios,
\* of the playback scenarios, of the tool scenarios
MaxMsgs == 4
MaxAudioMsgs == 2
MaxToolMsgs == 3
\* ticks of the output context's clock after its creation
MaxTime == 1
\* capture frames produced in one behaviour
MaxFrames == 1
MaxSessionMsgs == 3
MaxCaptureFrames == 3

(* --------------------------- program constants ------------------------- *)
\* a ref's null
Null == 0

\* enum TeachingMode
CONVERSATION == "Conversation Mode"
CORRECTION == "Correction Mode"
EXPLANATION == "Explanation Mode"
IDLE == "Ready to Start"
\* Object.values(TeachingMode)
TeachingModeValues == {CONVERSATION, CORRECTION, EXPLANATION, IDLE}

\* the declared tool
setTeachingModeName == "setTeachingMode"

\* useState<string | null>(null) for error, and the two messages set
NoError == "null"
InitError == "Failed to initialize session. API Key may be missing."
ConnError == "Connection failed. Please try again."

\* the suffix put on an interrupted model entry
InterruptMarker == " ..."

VARIABLES
  \* React state of the hook
  isConnected, isSpeaking, volume, error, messages,
  \* refs of the hook
  inputContextRef, outputContextRef, sessionRef, inputSourceRef,
  processorRef, streamRef, nextStartTimeRef, scheduledSourcesRef,
  \* App's state behind onModeChange
  currentMode,
  \* process.env.API_KEY is set
  hasApiKey,
  \* the browser: open audio contexts, live microphone streams, connected
  \* capture nodes, source nodes playing and source nodes whose ended event
  \* is queued, the output context's clock
  openInputCtx, openOutputCtx, liveStreams, inputSources, processors,
  playing, ended, now,
  \* the transport: each session's socket state, the then-callbacks waiting
  \* on its promise, what was handed to it
  transport, thenQueue, toolResponses, sentFrames,
  \* suspended async functions: connect() awaiting getUserMedia, onmessage
  \* awaiting decodeAudioData
  awaitingMic, pendingDecodes,
  \* counters naming connect attempts, delivered messages, capture frames
  nAttempts, nDelivered, nFrames,
  \* an exception that escaped a callback
  raised,
  \* history: the last step, the message it dispatched, the transcript
  \* events dispatched since the last connect(), the segments started since
  \* the last stop, the payloads dropped, where the last disconnect() found the session
  lastOp, lastMsg, events, schedLog, dropped, discAt

vars == << isConnected, isSpeaking, volume, error, messages,
           inputContextRef, outputContextRef, sessionRef, inputSourceRef,
           processorRef, streamRef, nextStartTimeRef, scheduledSourcesRef,
           currentMode, hasApiKey,
           openInputCtx, openOutputCtx, liveStreams, inputSources, processors,
           playing, ended, now,
           transport, thenQueue, toolResponses, sentFrames,
           awaitingMic, pendingDecodes,
           nAttempts, nDelivered, nFrames,
           raised,
           lastOp, lastMsg, events, schedLog, dropped, discAt >>

Attempts == 1..MaxConnects

\* a LiveServerMessage: toolCall.functionCalls, and of serverContent the two
\* transcription texts ("" when absent), turnComplete, interrupted and the
\* inline audio of modelTurn.parts[0]: "none", "pcm" (well-formed, decoding to
\* a buffer of duration dur) or "odd" (malformed: its decode fails)
Msg(calls, inTx, outTx, tc, intr, audio, dur) ==
  [ toolCalls |-> calls, inputTx |-> inTx, outputTx |-> outTx,
    turnComplete |-> tc, interrupted |-> intr, audio |-> audio, dur |-> dur ]

NoMsg == Msg(<< >>, "", "", FALSE, FALSE, "none", 0)

\* the state as one record, so that a callback's calls compose
S == [ isConnected |-> isConnected, isSpeaking |-> isSpeaking,
       volume |-> volume, error |-> error, messages |-> messages,
       inputContextRef |-> inputContextRef,
       outputContextRef |-> outputContextRef, sessionRef |-> sessionRef,
       inputSourceRef |-> inputSourceRef, processorRef |-> processorRef,
       streamRef |-> streamRef, nextStartTimeRef |-> nextStartTimeRef,
       scheduledSourcesRef |-> scheduledSourcesRef,
       currentMode |-> currentMode, hasApiKey |-> hasApiKey,
       openInputCtx |-> openInputCtx, openOutputCtx |-> openOutputCtx,
       liveStreams |-> liveStreams, inputSources |-> inputSources,
       processors |-> processors, playing |-> playing, ended |-> ended,
       now |-> now,
       transport |-> transport, thenQueue |-> thenQueue,
       toolResponses |-> toolResponses, sentFrames |-> sentFrames,
       awaitingMic |-> awaitingMic, pendingDecodes |-> pendingDecodes,
       nAttempts |-> nAttempts, nDelivered |-> nDelivered,
       nFrames |-> nFrames, raised |-> raised,
       lastOp |-> lastOp, lastMsg |-> lastMsg, events |-> events,
       schedLog |-> schedLog, dropped |-> dropped,
       discAt |-> discAt ]

Commit(s) ==
  /\ isConnected' = s.isConnected /\ isSpeaking' = s.isSpeaking
  /\ volume' = s.volume /\ error' = s.error /\ messages' = s.messages
  /\ inputContextRef' = s.inputContextRef
  /\ outputContextRef' = s.outputContextRef /\ sessionRef' = s.sessionRef
  /\ inputSourceRef' = s.inputSourceRef /\ processorRef' = s.processorRef
  /\ streamRef' = s.streamRef /\ nextStartTimeRef' = s.nextStartTimeRef
  /\ scheduledSourcesRef' = s.scheduledSourcesRef
  /\ currentMode' = s.currentMode /\ hasApiKey' = s.hasApiKey
  /\ openInputCtx' = s.openInputCtx /\ openOutputCtx' = s.openOutputCtx
  /\ liveStreams' = s.liveStreams /\ inputSources' = s.inputSources
  /\ processors' = s.processors /\ playing' = s.playing /\ ended' = s.ended
  /\ now' = s.now
  /\ transport' = s.transport /\ thenQueue' = s.thenQueue
  /\ toolResponses' = s.toolResponses /\ sentFrames' = s.sentFrames
  /\ awaitingMic' = s.awaitingMic /\ pendingDecodes' = s.pendingDecodes
  /\ nAttempts' = s.nAttempts /\ nDelivered' = s.nDelivered
  /\ nFrames' = s.nFrames /\ raised' = s.raised
  /\ lastOp' = s.lastOp /\ lastMsg' = s.lastMsg /\ events' = s.events
  /\ schedLog' = s.schedLog /\ dropped' = s.dropped
  /\ discAt' = s.discAt

\* the state equals the record s
Is(s) ==
  /\ isConnected = s.isConnected /\ isSpeaking = s.isSpeaking
  /\ volume = s.volume /\ error = s.error /\ messages = s.messages
  /\ inputContextRef = s.inputContextRef
  /\ outputContextRef = s.outputContextRef /\ sessionRef = s.sessionRef
  /\ inputSourceRef = s.inputSourceRef /\ processorRef = s.processorRef
  /\ streamRef = s.streamRef /\ nextStartTimeRef = s.nextStartTimeRef
  /\ scheduledSourcesRef = s.scheduledSourcesRef
  /\ currentMode = s.currentMode /\ hasApiKey = s.hasApiKey
  /\ openInputCtx = s.openInputCtx /\ openOutputCtx = s.openOutputCtx
  /\ liveStreams = s.liveStreams /\ inputSources = s.inputSources
  /\ processors = s.processors /\ playing = s.playing /\ ended = s.ended
  /\ now = s.now
  /\ transport = s.transport /\ thenQueue = s.thenQueue
  /\ toolResponses = s.toolResponses /\ sentFrames = s.sentFrames
  /\ awaitingMic = s.awaitingMic /\ pendingDecodes = s.pendingDecodes
  /\ nAttempts = s.nAttempts /\ nDelivered = s.nDelivered
  /\ nFrames = s.nFrames /\ raised = s.raised
  /\ lastOp = s.lastOp /\ lastMsg = s.lastMsg /\ events = s.events
  /\ schedLog = s.schedLog /\ dropped = s.dropped /\ discAt = s.discAt

\* the hook after its first render, the API key set or not
InitState(key) ==
  [ isConnected |-> FALSE, isSpeaking |-> FALSE, volume |-> 0,
    error |-> NoError, messages |-> << >>,
    inputContextRef |-> Null, outputContextRef |-> Null, sessionRef |-> Null,
    inputSourceRef |-> Null, processorRef |-> Null, streamRef |-> Null,
    nextStartTimeRef |-> 0, scheduledSourcesRef |-> {},
    currentMode |-> IDLE, hasApiKey |-> key,
    openInputCtx |-> {}, openOutputCtx |-> {}, liveStreams |-> {},
    inputSources |-> {}, processors |-> {}, playing |-> {}, ended |-> {},
    now |-> 0,
    transport |-> [k \in Attempts |-> "none"],
    thenQueue |-> [k \in Attempts |-> << >>],
    toolResponses |-> << >>, sentFrames |-> << >>,
    awaitingMic |-> {}, pendingDecodes |-> {},
    nAttempts |-> 0, nDelivered |-> 0, nFrames |-> 0, raised |-> FALSE,
    lastOp |-> "init", lastMsg |-> NoMsg, events |-> << >>,
    schedLog |-> << >>, dropped |-> {}, discAt |-> "none" ]

Init == \E key \in BOOLEAN : Is(InitState(key))

(* ----------------------- Transcript updaters --------------------------- *)
Last(log) == log[Len(log)]

\* a faulty replacement: the entries before the last are dropped
ReplaceLastOnly(log, e) == << e >>

\* [...newMsgs.slice(0, -1), e]
ReplaceLast(log, e) == [log EXCEPT ![Len(log)] = e]

\* a faulty merge: every delta opens a new entry
AppendDeltaAlwaysNew(prev, role, tx) ==
  Append(prev, [role |-> role, text |-> tx, isFinal |-> FALSE])

\* one role's branch of the transcription updater: extend the last entry when
\* it has this role and is not final, else append a new non-final entry
\* (the entry's id and timestamp carry no behaviour and are left out)
AppendDelta(prev, role, tx) ==
  IF Len(prev) > 0 /\ Last(prev).role = role /\ ~Last(prev).isFinal
  THEN ReplaceLast(prev, [Last(prev) EXCEPT !.text = @ \o tx])
  ELSE Append(prev, [role |-> role, text |-> tx, isFinal |-> FALSE])

\* setMessages for inputTranscription / outputTranscription: "" is falsy and
\* stands for an absent text; the input branch returns before the output one
ApplyTranscription(prev, inputTx, outputTx) ==
  IF inputTx # "" THEN AppendDelta(prev, "user", inputTx)
  ELSE IF outputTx # "" THEN AppendDelta(prev, "model", outputTx)
  ELSE prev

\* setMessages for turnComplete
ApplyTurnComplete(prev) ==
  IF Len(prev) > 0 /\ ~Last(prev).isFinal
  THEN ReplaceLast(prev, [Last(prev) EXCEPT !.isFinal = TRUE])
  ELSE prev

\* a faulty updater: the role of the last entry is not looked at
ApplyInterruptedAnyRole(prev) ==
  IF Len(prev) > 0 /\ ~Last(prev).isFinal
  THEN ReplaceLast(prev, [Last(prev) EXCEPT !.isFinal = TRUE,
                                            !.text = @ \o InterruptMarker])
  ELSE prev

\* setMessages for interrupted
ApplyInterrupted(prev) ==
  IF Len(prev) > 0 /\ ~Last(prev).isFinal /\ Last(prev).role = "model"
  THEN ReplaceLast(prev, [Last(prev) EXCEPT !.isFinal = TRUE,
                                            !.text = @ \o InterruptMarker])
  ELSE prev

\* the three updaters of one message's serverContent, in the handler's order
ApplyServerContent(prev, m) ==
  LET a == ApplyTranscription(prev, m.inputTx, m.outputTx)
      b == IF m.turnComplete THEN ApplyTurnComplete(a) ELSE a
  IN  IF m.interrupted THEN ApplyInterrupted(b) ELSE b

(* ------------------------------ Teardown ------------------------------- *)
\* AudioContext.close(): closing a context that is already closed fails
CloseInputCtx(s, c) ==
  IF c \in s.openInputCtx THEN [s EXCEPT !.openInputCtx = @ \ {c}]
  ELSE [s EXCEPT !.raised = TRUE]

CloseOutputCtx(s, c) ==
  IF c \in s.openOutputCtx THEN [s EXCEPT !.openOutputCtx = @ \ {c}]
  ELSE [s EXCEPT !.raised = TRUE]

stopAudioProcessing(s) ==
  LET s1 == IF s.processorRef # Null
            THEN [s EXCEPT !.processors = {p \in @ : p.id # s.processorRef},
                           !.processorRef = Null]
            ELSE s
      s2 == IF s1.inputSourceRef # Null
            THEN [s1 EXCEPT
                    !.inputSources = {p \in @ : p.id # s1.inputSourceRef},
                    !.inputSourceRef = Null]
            ELSE s1
      s3 == IF s2.streamRef # Null
            THEN [s2 EXCEPT !.liveStreams = @ \ {s2.streamRef},
                            !.streamRef = Null]
            ELSE s2
  IN  IF s3.inputContextRef # Null
      THEN [CloseInputCtx(s3, s3.inputContextRef) EXCEPT
              !.inputContextRef = Null]
      ELSE s3

\* a faulty stop: the cursor keeps its value
stopPlaybackKeepCursor(s) ==
  [s EXCEPT !.playing = @ \ s.scheduledSourcesRef,
            !.ended = @ \cup (s.scheduledSourcesRef \cap s.playing),
            !.scheduledSourcesRef = {},
            !.isSpeaking = FALSE,
            !.schedLog = << >>]

\* source.stop() of every scheduled source inside try/catch: a playing source
\* ends (its ended event is queued); whatever stop() throws for a source that
\* has already ended is swallowed
stopPlayback(s) ==
  [s EXCEPT !.playing = @ \ s.scheduledSourcesRef,
            !.ended = @ \cup (s.scheduledSourcesRef \cap s.playing),
            !.scheduledSourcesRef = {},
            !.nextStartTimeRef = 0,
            !.isSpeaking = FALSE,
            !.schedLog = << >>]

\* sessionRef.current.then(session => session.close()): runs at once when the
\* promise has resolved (the socket is open), waits on the promise while the
\* socket is connecting; close() of a socket that is closing or closed does
\* nothing, and the promise of a socket that failed never resolves
CloseSession(s, k) ==
  IF s.transport[k] = "open" THEN [s EXCEPT !.transport[k] = "closing"]
  ELSE IF s.transport[k] = "connecting"
       THEN [s EXCEPT !.thenQueue[k] = Append(@, [op |-> "close", frame |-> 0])]
       ELSE s

\* a faulty teardown: the session handle is kept
disconnectKeepSession(s) ==
  LET s1 == stopPlayback(stopAudioProcessing(s))
      s2 == IF s1.sessionRef # Null THEN CloseSession(s1, s1.sessionRef)
            ELSE s1
      s3 == IF s2.outputContextRef # Null
            THEN [CloseOutputCtx(s2, s2.outputContextRef) EXCEPT
                    !.outputContextRef = Null]
            ELSE s2
  IN  [s3 EXCEPT !.isConnected = FALSE, !.currentMode = IDLE, !.volume = 0]

disconnect(s) ==
  LET s1 == stopPlayback(stopAudioProcessing(s))
      s2 == IF s1.sessionRef # Null THEN CloseSession(s1, s1.sessionRef)
            ELSE s1
      s3 == IF s2.outputContextRef # Null
            THEN [CloseOutputCtx(s2, s2.outputContextRef) EXCEPT
                    !.outputContextRef = Null]
            ELSE s2
  IN  [s3 EXCEPT !.sessionRef = Null, !.isConnected = FALSE,
                 !.currentMode = IDLE, !.volume = 0]

(* --------------------------- connect() --------------------------------- *)
\* a faulty connect(): the API key is not checked
connectNoKeyCheck(s) ==
  LET k == s.nAttempts + 1
  IN  [s EXCEPT !.error = NoError, !.messages = << >>, !.nAttempts = k,
                !.inputContextRef = k, !.outputContextRef = k,
                !.openInputCtx = @ \cup {k},
                !.openOutputCtx = @ \cup {k},
                !.now = 0,
                !.awaitingMic = @ \cup {k}]

\* connect() up to its await: clears error and messages, checks the API key
\* (absent: throw, caught: setError, disconnect()), creates the two contexts
\* and suspends on getUserMedia
connect(s) ==
  LET k == s.nAttempts + 1
      s0 == [s EXCEPT !.error = NoError, !.messages = << >>, !.nAttempts = k]
  IN  IF ~s.hasApiKey
      THEN disconnect([s0 EXCEPT !.error = InitError])
      ELSE [s0 EXCEPT !.inputContextRef = k, !.outputContextRef = k,
                      !.openInputCtx = @ \cup {k},
                      !.openOutputCtx = @ \cup {k},
                      !.now = 0,
                      !.awaitingMic = @ \cup {k}]

\* connect() after getUserMedia resolved: keeps the stream, opens the
\* transport, sets sessionRef and, when the input context and the stream are
\* there, builds the capture graph on that context
connectResume(s, k) ==
  LET s1 == [s EXCEPT !.awaitingMic = @ \ {k},
                      !.streamRef = k, !.liveStreams = @ \cup {k},
                      !.transport[k] = "connecting",
                      !.sessionRef = k]
  IN  IF s1.inputContextRef # Null /\ s1.streamRef # Null
      THEN [s1 EXCEPT
              !.inputSourceRef = k, !.processorRef = k,
              !.inputSources = @ \cup {[id |-> k, ctx |-> s1.inputContextRef]},
              !.processors = @ \cup {[id |-> k, ctx |-> s1.inputContextRef]}]
      ELSE s1

\* a faulty catch block: no error is set
connectCatchSilent(s, k) ==
  disconnect([s EXCEPT !.awaitingMic = @ \ {k}])

\* connect() after getUserMedia rejected: the catch block
connectCatch(s, k) ==
  disconnect([s EXCEPT !.awaitingMic = @ \ {k}, !.error = InitError])

(* ------------------------ transport callbacks -------------------------- *)
\* the then-callbacks registered on the session promise while the socket was
\* connecting, run in registration order once it resolves: a close() closes
\* the socket, a frame is sent (a socket that is no longer open discards it)
RECURSIVE RunThens(_, _, _)
RunThens(s, k, q) ==
  IF q = << >> THEN s
  ELSE LET e == Head(q)
           s1 == IF s.transport[k] # "open" THEN s
                 ELSE IF e.op = "close"
                      THEN [s EXCEPT !.transport[k] = "closing"]
                      ELSE [s EXCEPT !.sentFrames = Append(@, << k, e.frame >>)]
       IN  RunThens(s1, k, Tail(q))

\* a faulty onopen: the mode is left as it is
onopenKeepMode(s, k) ==
  LET s1 == [s EXCEPT !.transport[k] = "open", !.isConnected = TRUE]
  IN  [RunThens(s1, k, s1.thenQueue[k]) EXCEPT !.thenQueue[k] = << >>]

onopen(s, k) ==
  LET s1 == [s EXCEPT !.transport[k] = "open",
                      !.isConnected = TRUE,
                      !.currentMode = CONVERSATION]
  IN  [RunThens(s1, k, s1.thenQueue[k]) EXCEPT !.thenQueue[k] = << >>]

onclose(s, k) == disconnect([s EXCEPT !.transport[k] = "closed"])

onerror(s, k) ==
  disconnect([s EXCEPT !.transport[k] = "errored", !.error = ConnError])

(* ------------------------------ onmessage ------------------------------ *)
\* a faulty guard: every requested value is taken over
SetModeAlways(mode, newMode) == newMode

\* Object.values(TeachingMode).includes(newMode) guards onModeChange
SetModeIfValid(mode, newMode) ==
  IF newMode \in TeachingModeValues THEN newMode ELSE mode

\* a faulty acknowledgment: only a recognized mode is acknowledged
SendToolResponseIfValid(sent, k, fc) ==
  IF fc.mode \in TeachingModeValues
  THEN Append(sent, [session |-> k, id |-> fc.id, name |-> fc.name])
  ELSE sent

\* session.sendToolResponse for the call fc of session k
SendToolResponse(sent, k, fc) ==
  Append(sent, [session |-> k, id |-> fc.id, name |-> fc.name])

\* a faulty loop: every call is acknowledged, whatever its name
HandleToolCallsAckAll(s, k, calls) ==
  LET valid == {i \in 1..Len(calls) :
                  /\ calls[i].name = setTeachingModeName
                  /\ calls[i].mode \in TeachingModeValues}
  IN  [s EXCEPT
         !.currentMode =
            IF valid = {} THEN @
            ELSE calls[CHOOSE i \in valid : \A j \in valid : j <= i].mode,
         !.toolResponses =
            @ \o [i \in 1..Len(calls) |->
                    [session |-> k, id |-> calls[i].id,
                     name |-> calls[i].name]]]

\* for (const fc of message.toolCall.functionCalls)
RECURSIVE HandleToolCalls(_, _, _)
HandleToolCalls(s, k, calls) ==
  IF calls = << >> THEN s
  ELSE LET fc == Head(calls)
           s1 == IF fc.name = setTeachingModeName
                 THEN [s EXCEPT
                         !.currentMode = SetModeIfValid(@, fc.mode),
                         !.toolResponses = SendToolResponse(@, k, fc)]
                 ELSE s
       IN  HandleToolCalls(s1, k, Tail(calls))

\* a faulty sync: the cursor is set to the clock even when it is ahead of it
SyncCursorAlways(nextStart, currentTime) == currentTime

\* "Ensure we are synced"
SyncCursor(nextStart, currentTime) ==
  IF nextStart < currentTime THEN currentTime ELSE nextStart

\* the audio branch up to the await of decodeAudioData
BeginDecode(s, m, id) ==
  [s EXCEPT !.isSpeaking = TRUE,
            !.nextStartTimeRef = SyncCursor(@, s.now),
            !.pendingDecodes = @ \cup
               {[ id |-> id, ctx |-> s.outputContextRef, audio |-> m.audio,
                  dur |-> m.dur, interrupted |-> m.interrupted,
                  at |-> s.now ]}]

\* source.start(nextStartTimeRef.current) and what follows it in the try block
ScheduleSource(s, p) ==
  [s EXCEPT !.schedLog = Append(@, [id |-> p.id, start |-> s.nextStartTimeRef,
                                    dur |-> p.dur]),
            !.nextStartTimeRef = @ + p.dur,
            !.scheduledSourcesRef = @ \cup {p.id},
            !.playing = @ \cup {p.id}]

\* "Handle Interruption", the end of the handler
HandleInterruption(s, interrupted) ==
  IF interrupted THEN stopPlayback(s) ELSE s

\* the handler from its start to its first suspension or its end
onmessage(s, k, m) ==
  LET id == s.nDelivered + 1
      s1 == HandleToolCalls([s EXCEPT !.nDelivered = id], k, m.toolCalls)
      s2 == [s1 EXCEPT !.messages = ApplyServerContent(@, m)]
  IN  IF m.audio # "none" /\ s2.outputContextRef # Null
      THEN BeginDecode(s2, m, id)
      ELSE HandleInterruption(s2, m.interrupted)

\* a faulty catch block: a failed decode tears the session down
onmessageResumeTeardown(s, p, nodeFails) ==
  LET s0 == [s EXCEPT !.pendingDecodes = @ \ {p}]
      s1 == IF p.audio = "pcm" /\ ~nodeFails THEN ScheduleSource(s0, p)
            ELSE disconnect([s0 EXCEPT !.dropped = @ \cup {p.id}])
  IN  HandleInterruption(s1, p.interrupted)

\* the handler from the completion of the decode p to its end: the try block
\* after the await, or the catch block when the decode failed or, nodeFails,
\* when the context refused to create the nodes
onmessageResume(s, p, nodeFails) ==
  LET s0 == [s EXCEPT !.pendingDecodes = @ \ {p}]
      s1 == IF p.audio = "pcm" /\ ~nodeFails THEN ScheduleSource(s0, p)
            ELSE [s0 EXCEPT !.dropped = @ \cup {p.id}]
  IN  HandleInterruption(s1, p.interrupted)

\* source.onended
onended(s, i) ==
  LET left == s.scheduledSourcesRef \ {i}
  IN  [s EXCEPT !.ended = @ \ {i},
                !.scheduledSourcesRef = left,
                !.isSpeaking = IF left = {} THEN FALSE ELSE @]

\* a faulty handler: a frame produced while the socket is connecting goes to
\* the front of the callbacks that wait on the session promise
onaudioprocessPrepend(s, p, level) ==
  LET f == s.nFrames + 1
      k == p.id
      s1 == [s EXCEPT !.nFrames = f, !.volume = IF level < 1 THEN level ELSE 1]
  IN  IF s1.transport[k] = "open"
      THEN [s1 EXCEPT !.sentFrames = Append(@, << k, f >>)]
      ELSE IF s1.transport[k] = "connecting"
           THEN [s1 EXCEPT !.thenQueue[k] =
                             << [op |-> "frame", frame |-> f] >> \o @]
           ELSE s1

\* processor.onaudioprocess of processor p for a frame whose rms * 5 is
\* level: the volume, then sessionPromise.then(sendRealtimeInput)
Min(a, b) == IF a < b THEN a ELSE b

onaudioprocess(s, p, level) ==
  LET f == s.nFrames + 1
      k == p.id
      s1 == [s EXCEPT !.nFrames = f, !.volume = Min(1, level)]
  IN  IF s1.transport[k] = "open"
      THEN [s1 EXCEPT !.sentFrames = Append(@, << k, f >>)]
      ELSE IF s1.transport[k] = "connecting"
           THEN [s1 EXCEPT !.thenQueue[k] =
                             Append(@, [op |-> "frame", frame |-> f])]
           ELSE s1

(* ------------------------------ inputs --------------------------------- *)
\* functionCalls of a toolCall
Call(id, name, mode) == [id |-> id, name |-> name, mode |-> mode]

ToolMsg(calls) == Msg(calls, "", "", FALSE, FALSE, "none", 0)
Delta(inTx, outTx) == Msg(<< >>, inTx, outTx, FALSE, FALSE, "none", 0)
TurnComplete == Msg(<< >>, "", "", TRUE, FALSE, "none", 0)
Interrupted == Msg(<< >>, "", "", FALSE, TRUE, "none", 0)
Audio(dur) == Msg(<< >>, "", "", FALSE, FALSE, "pcm", dur)
OddAudio == Msg(<< >>, "", "", FALSE, FALSE, "odd", 0)

\* the messages of the transcript scenarios
TranscriptMsgs ==
  { Delta("Hi", ""), Delta(" there", ""), Delta("", "Hello!"),
    Delta("you", "I"), TurnComplete, Interrupted,
    Msg(<< >>, "", "Let me expl", FALSE, TRUE, "none", 0) }

\* the messages that carry audio, and the interruption
AudioMsgs ==
  { Audio(1), Audio(2), OddAudio, Interrupted,
    Msg(<< >>, "", "", FALSE, TRUE, "pcm", 1) }

\* tool calls: recognized and unrecognized modes, another tool, two calls
ToolMsgs ==
  { ToolMsg(<< Call(i, setTeachingModeName, md) >>) :
      i \in 1..2,
      md \in {CORRECTION, EXPLANATION, IDLE, "Nonsense Mode"} } \cup
  { ToolMsg(<< Call(1, "otherTool", CORRECTION) >>),
    ToolMsg(<< Call(1, "otherTool", CORRECTION),
               Call(2, setTeachingModeName, EXPLANATION) >>),
    ToolMsg(<< Call(1, setTeachingModeName, "Nonsense Mode"),
               Call(2, setTeachingModeName, CONVERSATION) >>) }

\* one message of each kind: a recognized and an unrecognized mode request,
\* another tool, a delta, turnComplete, interrupted, good and bad audio
SessionMsgs ==
  { ToolMsg(<< Call(1, setTeachingModeName, CORRECTION) >>),
    ToolMsg(<< Call(1, setTeachingModeName, "Nonsense Mode") >>),
    ToolMsg(<< Call(1, "otherTool", EXPLANATION) >>),
    Delta("", "Hello!"), TurnComplete, Interrupted, Audio(1), OddAudio }

(* ------------------------------ actions -------------------------------- *)
\* where a disconnect() call finds the session
DiscPoint ==
  IF awaitingMic # {} THEN "awaitMic"
  ELSE IF sessionRef # Null /\ transport[sessionRef] = "connecting"
       THEN "beforeOpen"
       ELSE IF scheduledSourcesRef # {} \/ pendingDecodes # {}
            THEN "playback"
            ELSE "other"

\* a step of the callback op; lastMsg holds the message a step dispatched
Step(s, op) == Commit([s EXCEPT !.lastOp = op, !.lastMsg = NoMsg])
MsgStep(s, m) == Commit([s EXCEPT !.lastOp = "onmessage", !.lastMsg = m])

ConnectUpTo(max) ==
  /\ nAttempts < max
  /\ Step([connect(S) EXCEPT !.discAt = "none", !.events = << >>], "connect")

Connect == ConnectUpTo(MaxConnects)

MicGranted ==
  \E k \in awaitingMic : Step(connectResume(S, k), "micGranted")

MicDenied ==
  \E k \in awaitingMic : Step(connectCatch(S, k), "micDenied")

Disconnect ==
  /\ nAttempts > 0
  /\ Step([disconnect(S) EXCEPT !.discAt = DiscPoint], "disconnect")

OnOpen ==
  \E k \in Attempts :
    /\ transport[k] = "connecting"
    /\ Step(onopen(S, k), "onopen")

\* the close event: a remote close of an open socket, or the end of a close()
\* or of a failure
OnClose ==
  \E k \in Attempts :
    /\ transport[k] \in {"open", "closing", "errored"}
    /\ Step(onclose(S, k), "onclose")

OnError ==
  \E k \in Attempts :
    /\ transport[k] \in {"connecting", "open"}
    /\ Step(onerror(S, k), "onerror")

\* a message that carries a transcription text, turnComplete or interrupted
HasTranscriptEvent(m) ==
  m.inputTx # "" \/ m.outputTx # "" \/ m.turnComplete \/ m.interrupted

\* a message is dispatched while the socket is open, or closing (a message
\* already received when close() was called)
OnMessageOf(M, max) ==
  \E k \in Attempts, m \in M :
    /\ transport[k] \in {"open", "closing"}
    /\ nDelivered < max
    /\ MsgStep([onmessage(S, k, m) EXCEPT
                  !.events = IF HasTranscriptEvent(m) THEN Append(@, m) ELSE @],
               m)

OnTranscriptMsg == OnMessageOf(TranscriptMsgs, MaxMsgs)
OnAudioMsg == OnMessageOf(AudioMsgs, MaxAudioMsgs)
OnToolMsg == OnMessageOf(ToolMsgs, MaxToolMsgs)

\* decodeAudioData is asynchronous: the decodes that are pending complete in
\* any order
DecodeReady(p) == p \in pendingDecodes

\* createBuffer / createBufferSource on a context that has been closed: some
\* browsers throw InvalidStateError, others create the node
NodeFailures(p) ==
  IF p.ctx \in openOutputCtx THEN {FALSE} ELSE {FALSE, TRUE}

DecodeDone ==
  \E p \in pendingDecodes :
    /\ DecodeReady(p)
    /\ \E nodeFails \in NodeFailures(p) :
         Step(onmessageResume(S, p, nodeFails), "decodeDone")

\* a playing source reaches the end of its buffer
SourceFinished ==
  \E i \in playing :
    /\ playing' = playing \ {i}
    /\ ended' = ended \cup {i}
    /\ lastOp' = "sourceFinished"
    /\ lastMsg' = NoMsg
    /\ UNCHANGED << isConnected, isSpeaking, volume, error, messages,
                    inputContextRef, outputContextRef, sessionRef,
                    inputSourceRef, processorRef, streamRef, nextStartTimeRef,
                    scheduledSourcesRef, currentMode, hasApiKey, openInputCtx,
                    openOutputCtx, liveStreams, inputSources, processors, now,
                    transport, thenQueue, toolResponses, sentFrames,
                    awaitingMic, pendingDecodes, nAttempts, nDelivered,
                    nFrames, raised, events, schedLog, dropped, discAt >>

OnEnded ==
  \E i \in ended : Step(onended(S, i), "onended")

OnAudioProcessUpTo(max) ==
  \E p \in processors, level \in 0..2 :
    /\ p.ctx \in openInputCtx
    /\ nFrames < max
    /\ Step(onaudioprocess(S, p, level), "onaudioprocess")

OnAudioProcess == OnAudioProcessUpTo(MaxFrames)

\* the output context's clock advances
Tick ==
  /\ outputContextRef # Null
  /\ now < MaxTime
  /\ Step([S EXCEPT !.now = @ + 1], "tick")

\* the session's life cycle: connect and disconnect calls, the transport's
\* callbacks, capture frames
Next ==
  \/ Connect \/ MicGranted \/ MicDenied \/ Disconnect
  \/ OnOpen \/ OnClose \/ OnError
  \/ OnAudioProcess

Spec == Init /\ [][Next]_vars

\* the first session once its transport has opened: connect() with the API
\* key set, getUserMedia resolved, onopen
InitOpen ==
  Is([onopen(connectResume(connect(InitState(TRUE)), 1), 1) EXCEPT
        !.lastOp = "onopen"])

\* the transcript: an open session receives the transcript scenarios' messages
NextTranscript == OnTranscriptMsg

SpecTranscript == InitOpen /\ [][NextTranscript]_vars

\* playback: an open session receives audio and interruptions, until the
\* user disconnects
NextPlayback ==
  \/ OnAudioMsg \/ DecodeDone \/ SourceFinished \/ OnEnded \/ Tick
  \/ OnAudioProcess \/ Disconnect \/ OnClose \/ OnError

SpecPlayback == InitOpen /\ [][NextPlayback]_vars

\* playback with its asynchronous steps carried through: a pending decode
\* settles, a playing source reaches its end, a queued ended event is
\* delivered
SpecPlaybackFair ==
  /\ SpecPlayback
  /\ WF_vars(DecodeDone)
  /\ WF_vars(SourceFinished)
  /\ WF_vars(OnEnded)

\* tool calls: an open session receives tool-invocation requests
NextTool == OnToolMsg

SpecTool == InitOpen /\ [][NextTool]_vars

\* the first session while its socket is connecting: connect() with the API
\* key set, getUserMedia resolved
InitConnecting ==
  Is([connectResume(connect(InitState(TRUE)), 1) EXCEPT
        !.lastOp = "micGranted"])

\* one session from the opening of its socket to its end: messages of every
\* kind, capture frames, the transport's callbacks and disconnect
OnSessionMsg == OnMessageOf(SessionMsgs, MaxSessionMsgs)

NextSession ==
  \/ OnOpen \/ OnSessionMsg \/ DecodeDone \/ OnAudioProcess
  \/ Disconnect \/ OnClose \/ OnError

SpecSession == InitConnecting /\ [][NextSession]_vars

\* capture: frames are produced while the socket is connecting and after it
\* has opened, until the session ends
OnCaptureFrame == OnAudioProcessUpTo(MaxCaptureFrames)

NextCapture ==
  \/ OnOpen \/ OnCaptureFrame \/ Disconnect \/ OnClose \/ OnError

SpecCapture == InitConnecting /\ [][NextCapture]_vars

(* ======================= Properties of playback ======================== *)

\* C1: the segments started since the last stop are back to back or later:
\* each one starts no earlier than the one before it started plus that one's
\* duration (so the start times, which are the cursor's values at the
\* enqueues, never decrease), and the cursor is at or past the end of the last
C1_PlaybackMonotone ==
  /\ \A i \in 1..(Len(schedLog) - 1) :
       /\ schedLog[i + 1].start >= schedLog[i].start + schedLog[i].dur
       /\ schedLog[i + 1].start >= schedLog[i].start
  /\ schedLog # << >> =>
       nextStartTimeRef >=
         schedLog[Len(schedLog)].start + schedLog[Len(schedLog)].dur

\* two segments of one run, the second started after the first
C1_Witness ==
  /\ Len(schedLog) = 2
  /\ schedLog[2].start > schedLog[1].start

\* C2: inbound events are handled one after the other in delivery order, so
\* the segments are put on the timeline in the order in which their payloads
\* were delivered, whenever their decodes complete
C2_DeliveryOrder ==
  \A i, j \in 1..Len(schedLog) : i < j => schedLog[i].id < schedLog[j].id

(* ====================== Properties of the transcript =================== *)

\* C3: a delta of the role of the last entry, when that entry is open, is
\* concatenated onto it, any other delta appends a new open entry, and a
\* turn-complete signal closes the last entry if it is open; the scenario
\* delta(user,"Hi"), delta(user," there"), turnComplete, delta(model,"Hello!")
\* yields exactly [{user,"Hi there",final},{model,"Hello!",open}]
C3_TranscriptMerge ==
  /\ [](events = << Delta("Hi", ""), Delta(" there", ""), TurnComplete,
                    Delta("", "Hello!") >>
          => messages =
               << [role |-> "user", text |-> "Hi there", isFinal |-> TRUE],
                  [role |-> "model", text |-> "Hello!", isFinal |-> FALSE] >>)
  /\ [][ (lastOp' = "onmessage" /\ nDelivered' = nDelivered + 1) =>
           LET m == lastMsg'
               n == Len(messages)
               tailOpen(r) ==
                 n > 0 /\ messages[n].role = r /\ ~messages[n].isFinal
               merged(r, tx) ==
                 IF tailOpen(r)
                 THEN [messages EXCEPT ![n].text = messages[n].text \o tx]
                 ELSE messages \o
                        << [role |-> r, text |-> tx, isFinal |-> FALSE] >>
               closed ==
                 IF n > 0 /\ ~messages[n].isFinal
                 THEN [messages EXCEPT ![n].isFinal = TRUE]
                 ELSE messages
               signals == m.turnComplete \/ m.interrupted
           IN  /\ (m.inputTx # "" /\ m.outputTx = "" /\ ~signals)
                    => messages' = merged("user", m.inputTx)
               /\ (m.outputTx # "" /\ m.inputTx = "" /\ ~signals)
                    => messages' = merged("model", m.outputTx)
               /\ (m.turnComplete /\ ~m.interrupted
                     /\ m.inputTx = "" /\ m.outputTx = "")
                    => messages' = closed
       ]_vars

\* the scenario's four events have been dispatched
C3_Witness ==
  /\ events = << Delta("Hi", ""), Delta(" there", ""), TurnComplete,
                 Delta("", "Hello!") >>
  /\ Len(messages) = 2
  /\ messages[1].text = "Hi there"

\* C4: an open (non-final) message is only ever the last entry of the log: no
\* non-final message is followed by another entry
C4_OpenOnlyAtTail ==
  \A i \in 1..(Len(messages) - 1) : messages[i].isFinal

\* C5: an interrupted signal appends " ..." to the last entry and makes it
\* final exactly when that entry is open and of role model; in every other
\* case (empty log, last entry final, last entry of role user) it leaves the
\* transcript as it is
C5_InterruptedMarker ==
  [][ (/\ lastOp' = "onmessage" /\ nDelivered' = nDelivered + 1
       /\ lastMsg'.interrupted /\ ~lastMsg'.turnComplete
       /\ lastMsg'.inputTx = "" /\ lastMsg'.outputTx = "") =>
        LET n == Len(messages)
        IN  IF n > 0 /\ ~messages[n].isFinal /\ messages[n].role = "model"
            THEN messages' =
                   [messages EXCEPT
                      ![n] = [role |-> "model",
                              text |-> messages[n].text \o " ...",
                              isFinal |-> TRUE]]
            ELSE messages' = messages
    ]_vars

\* an open model entry has just been interrupted, after a user entry that an
\* earlier interrupted signal had left open
C5_Witness ==
  /\ lastMsg = Interrupted
  /\ Len(messages) = 2
  /\ messages[1] = [role |-> "user", text |-> "Hi", isFinal |-> FALSE]
  /\ messages[2] = [role |-> "model", text |-> "Hello! ...", isFinal |-> TRUE]
  /\ events = << Delta("Hi", ""), Interrupted, Delta("", "Hello!"),
                 Interrupted >>

(* ================== Properties of interruption and decode =============== *)

\* C6: a handler run that carries the interrupted signal ends with
\* stopPlayback, at once when it does not decode audio and after its decode
\* otherwise; right after it no source is scheduled or playing, the cursor is
\* zero, isSpeaking is false, and nothing was raised, whatever the scheduled
\* set held (nothing, playing sources, sources that had already finished)
C6_InterruptStops ==
  [][ LET stopsNow ==
            /\ lastOp' = "onmessage" /\ nDelivered' = nDelivered + 1
            /\ lastMsg'.interrupted
            /\ pendingDecodes' = pendingDecodes
          stopsAfterDecode ==
            /\ lastOp' = "decodeDone"
            /\ \E p \in pendingDecodes \ pendingDecodes' : p.interrupted
      IN  (stopsNow \/ stopsAfterDecode) =>
            /\ scheduledSourcesRef' = {}
            /\ playing' \cap scheduledSourcesRef = {}
            /\ nextStartTimeRef' = 0
            /\ ~isSpeaking'
            /\ ~raised'
    ]_vars

\* an interruption has stopped a scheduled set that held a source (the stopped
\* or finished source's ended event is still to be delivered)
C6_Witness ==
  /\ lastOp = "onmessage" /\ lastMsg = Interrupted
  /\ ended # {}
  /\ scheduledSourcesRef = {}
  /\ nextStartTimeRef = 0
  /\ ~isSpeaking

\* C8: an audio payload whose decode fails is dropped: neither its dispatch
\* nor its failure changes the scheduled set, advances the cursor (the
\* dispatch only brings a cursor that is behind the clock up to it), changes
\* the connection state or tears anything down; a well-formed payload whose
\* decode completes on the open context is scheduled at the cursor and played
C8_MalformedDropped ==
  [][ LET sessionKept ==
            /\ isConnected' = isConnected
            /\ transport' = transport
            /\ sessionRef' = sessionRef
            /\ outputContextRef' = outputContextRef
            /\ openOutputCtx' = openOutputCtx
            /\ streamRef' = streamRef
            /\ currentMode' = currentMode
            /\ error' = error
            /\ ~raised'
      IN  /\ (/\ lastOp' = "onmessage" /\ nDelivered' = nDelivered + 1
              /\ lastMsg'.audio = "odd" /\ ~lastMsg'.interrupted) =>
                /\ scheduledSourcesRef' = scheduledSourcesRef
                /\ playing' = playing
                /\ nextStartTimeRef' =
                     IF outputContextRef # Null /\ nextStartTimeRef < now
                     THEN now ELSE nextStartTimeRef
                /\ sessionKept
          /\ lastOp' = "decodeDone" =>
               \A p \in pendingDecodes \ pendingDecodes' :
                 /\ (p.audio = "odd" /\ ~p.interrupted) =>
                      /\ p.id \in dropped'
                      /\ scheduledSourcesRef' = scheduledSourcesRef
                      /\ playing' = playing
                      /\ nextStartTimeRef' = nextStartTimeRef
                      /\ sessionKept
                 /\ (p.audio = "pcm" /\ ~p.interrupted
                       /\ p.ctx \in openOutputCtx) =>
                      /\ scheduledSourcesRef' = scheduledSourcesRef \cup {p.id}
                      /\ p.id \in playing'
                      /\ nextStartTimeRef' = nextStartTimeRef + p.dur
                      /\ sessionKept
    ]_vars

\* a payload was dropped and a later one is scheduled and playing, connected
C8_Witness ==
  /\ isConnected
  /\ \E d \in dropped :
       \E i \in scheduledSourcesRef \cap playing : i > d

(* ======================= Properties of tool calls ====================== *)

\* C7: a message's setTeachingMode calls are acknowledged one for one and in
\* order, each acknowledgment with its call's id and name, whether the mode
\* asked for is a TeachingMode or not, and no other call is acknowledged; the
\* mode becomes the last recognized mode asked for and is left as it is when
\* there is none (a call for "Nonsense Mode" changes nothing)
C7_ToolAck ==
  [][ (lastOp' = "onmessage" /\ nDelivered' = nDelivered + 1) =>
        LET calls == lastMsg'.toolCalls
            mine == SelectSeq(calls, LAMBDA c : c.name = "setTeachingMode")
            acks == [i \in 1..Len(mine) |->
                       [session |-> sessionRef, id |-> mine[i].id,
                        name |-> mine[i].name]]
            valid == {i \in 1..Len(mine) :
                        mine[i].mode \in {CONVERSATION, CORRECTION,
                                          EXPLANATION, IDLE}}
        IN  /\ toolResponses' = toolResponses \o acks
            /\ currentMode' =
                 IF valid = {} THEN currentMode
                 ELSE mine[CHOOSE i \in valid : \A j \in valid : j <= i].mode
    ]_vars

\* a call for "Nonsense Mode" was acknowledged and left the mode, which an
\* earlier call had set, as it was
C7_Witness ==
  /\ lastMsg = ToolMsg(<< Call(2, setTeachingModeName, "Nonsense Mode") >>)
  /\ Len(toolResponses) = 2
  /\ toolResponses[2] = [session |-> 1, id |-> 2, name |-> "setTeachingMode"]
  /\ currentMode = EXPLANATION

(* ======================== Properties of teardown ======================= *)

\* C9: in every state, disconnect() called twice leaves what disconnect()
\* called once leaves: not connected, mode Idle, volume 0, no capture nodes,
\* stream or contexts, nothing scheduled, cursor 0, no session handle; and
\* neither call raises
C9_DisconnectIdempotent ==
  LET once == disconnect(S)
      twice == disconnect(once)
      Torn(s) ==
        /\ ~s.isConnected /\ s.currentMode = IDLE /\ s.volume = 0
        /\ s.processorRef = Null /\ s.inputSourceRef = Null
        /\ s.streamRef = Null
        /\ s.inputContextRef = Null /\ s.outputContextRef = Null
        /\ s.scheduledSourcesRef = {} /\ s.nextStartTimeRef = 0
        /\ s.sessionRef = Null
        /\ ~s.raised
  IN  /\ twice = once
      /\ Torn(once)
      /\ lastOp = "disconnect" => Torn(S)

\* disconnect() was called while the socket was connecting: one close() waits
\* on the session promise
C9_Witness ==
  /\ lastOp = "disconnect" /\ discAt = "beforeOpen"
  /\ \E k \in Attempts :
       /\ transport[k] = "connecting"
       /\ thenQueue[k] = << [op |-> "close", frame |-> 0] >>

\* C10: after a disconnect() called while connect() awaited the microphone,
\* while the socket was connecting, or during playback, and once nothing is
\* pending any more (no getUserMedia, no socket connecting or closing, no
\* queued then-callback, no decode), the client is not connected, the mode is
\* Idle, and there is no microphone stream, no audio context and no open socket
C10_DisconnectMidConnect ==
  (/\ discAt \in {"awaitMic", "beforeOpen", "playback"}
   /\ awaitingMic = {}
   /\ pendingDecodes = {}
   /\ \A k \in Attempts :
        /\ transport[k] \notin {"connecting", "closing", "errored"}
        /\ thenQueue[k] = << >>)
  => /\ ~isConnected
     /\ currentMode = IDLE
     /\ streamRef = Null /\ liveStreams = {}
     /\ inputContextRef = Null /\ outputContextRef = Null
     /\ openInputCtx = {} /\ openOutputCtx = {}
     /\ \A k \in Attempts : transport[k] # "open"

(* ======================= Properties of the session ===================== *)

\* C11: at most one session is live at any time: never more than one open
\* socket, one live microphone stream, one open capture context and one open
\* output context
C11_OneSession ==
  /\ Cardinality({k \in Attempts : transport[k] = "open"}) <= 1
  /\ Cardinality(liveStreams) <= 1
  /\ Cardinality(openInputCtx) <= 1
  /\ Cardinality(openOutputCtx) <= 1

\* C12: a transport error, and a close of a socket that was open (no close()
\* had been asked for), each surface an error message and leave the session
\* torn down as disconnect() does: not connected, mode Idle, refs cleared
C12_ErrorSurfaced ==
  [][ (\/ lastOp' = "onerror"
       \/ /\ lastOp' = "onclose"
          /\ \E k \in Attempts :
               transport[k] = "open" /\ transport'[k] = "closed") =>
        /\ error' # NoError
        /\ ~isConnected' /\ currentMode' = IDLE /\ volume' = 0
        /\ sessionRef' = Null /\ streamRef' = Null
        /\ inputContextRef' = Null /\ outputContextRef' = Null
        /\ scheduledSourcesRef' = {}
    ]_vars

\* C13: without an API key every connect() ends with the error set and the
\* session torn down: no getUserMedia is pending, no socket is ever created
\* and isConnected is never true
C13_MissingCredential ==
  ~hasApiKey =>
    /\ \A k \in Attempts : transport[k] = "none"
    /\ awaitingMic = {}
    /\ ~isConnected
    /\ sessionRef = Null
    /\ nAttempts > 0 => error = InitError

\* connect() has just failed for the missing key
C13_Witness ==
  /\ ~hasApiKey
  /\ lastOp = "connect"
  /\ error = InitError

\* C14: when getUserMedia rejects, the attempt ends with the error set and
\* the session not connected, and that attempt never creates a socket: a
\* socket is only created by an attempt whose getUserMedia resolved, and
\* isConnected only becomes true when such a socket opens
C14_MicDenied ==
  [][ /\ \A k \in awaitingMic \ awaitingMic' :
           lastOp' = "micDenied" =>
             /\ error' = InitError
             /\ ~isConnected'
             /\ transport'[k] = "none"
      /\ \A k \in Attempts :
           /\ (transport[k] = "none" /\ transport'[k] # "none") =>
                (k \in awaitingMic /\ lastOp' = "micGranted")
           /\ (k <= nAttempts /\ k \notin awaitingMic) => k \notin awaitingMic'
      /\ (~isConnected /\ isConnected') =>
           (lastOp' = "onopen" /\
              \E k \in Attempts : transport[k] = "connecting")
    ]_vars

\* getUserMedia has just rejected for the only attempt
C14_Witness ==
  /\ lastOp = "micDenied"
  /\ nAttempts = 1
  /\ error = InitError
  /\ ~isConnected
  /\ transport[1] = "none"

\* C15: at the moment a connect attempt fails, for the missing key or for the
\* microphone, the attempt has created no audio context, no microphone stream
\* and no socket
C15_NothingCommitted ==
  [][ /\ (lastOp' = "connect" /\ ~hasApiKey) =>
           /\ openInputCtx' \subseteq openInputCtx
           /\ openOutputCtx' \subseteq openOutputCtx
           /\ liveStreams' \subseteq liveStreams
           /\ transport'[nAttempts'] = "none"
      /\ \A k \in awaitingMic \ awaitingMic' :
           lastOp' = "micDenied" =>
             /\ k \notin openInputCtx /\ k \notin openOutputCtx
             /\ k \notin liveStreams
             /\ transport[k] = "none"
    ]_vars

(* ======================== Properties of capture ======================== *)

\* C16: no capture resource is released twice (nothing is raised by a
\* release), and once every attempt has come to its end (no getUserMedia
\* pending, every socket that was created is closed) none is still held: no
\* live microphone stream, no connected source or processor node, no open
\* capture context
C16_CaptureReleasedOnce ==
  /\ ~raised
  /\ (/\ awaitingMic = {}
      /\ \A k \in Attempts : transport[k] \in {"none", "closed"})
     => /\ liveStreams = {}
        /\ inputSources = {}
        /\ processors = {}
        /\ openInputCtx = {}

(* ========================= Properties of the mode ====================== *)

\* C17: the mode changes only in onopen (to Conversation), in a teardown (to
\* Idle) and in the dispatch of a message with a setTeachingMode call for a
\* TeachingMode value (to the last such value of the message); a message
\* without such a call (delta, turnComplete, interrupted, audio, another tool,
\* an unrecognized mode), the end of a decode and a capture frame leave it as
\* it is
C17_ModeFrame ==
  [][ LET calls == lastMsg'.toolCalls
          valid == {i \in 1..Len(calls) :
                      /\ calls[i].name = "setTeachingMode"
                      /\ calls[i].mode \in {CONVERSATION, CORRECTION,
                                            EXPLANATION, IDLE}}
          dispatch == lastOp' = "onmessage" /\ nDelivered' = nDelivered + 1
      IN  /\ dispatch =>
                currentMode' =
                  IF valid = {} THEN currentMode
                  ELSE calls[CHOOSE i \in valid : \A j \in valid : j <= i].mode
          /\ lastOp' = "onopen" => currentMode' = CONVERSATION
          /\ lastOp' \in {"disconnect", "onclose", "onerror"} =>
                currentMode' = IDLE
          /\ ~dispatch /\ lastOp' \notin {"onopen", "disconnect", "onclose",
                                          "onerror"} =>
                currentMode' = currentMode
    ]_vars

\* the mode a tool call had set has been kept by an interrupted signal, by an
\* audio payload and by a capture frame
C17_Witness ==
  /\ currentMode = CORRECTION
  /\ isConnected
  /\ lastOp = "onaudioprocess"
  /\ nDelivered = 3
  /\ events = << Interrupted >>
  /\ pendingDecodes # {}

(* ================= Properties of the cursor and of idleness ============= *)

\* C18: in a connected session, a source created for a decoded payload is
\* started at the cursor, and the cursor it is started at is not earlier than
\* the output clock's time read when the payload was dispatched
C18_StartNotBeforeDispatch ==
  [][ \A p \in pendingDecodes \ pendingDecodes' :
        (/\ lastOp' = "decodeDone"
         /\ isConnected /\ p.ctx \in openOutputCtx
         /\ p.audio = "pcm" /\ p.id \notin dropped') =>
           nextStartTimeRef >= p.at
    ]_vars

(* =================== Properties of the transcript log ================== *)

\* C19: a step of the session never removes or reorders entries and appends
\* at most one; an entry that is final, and an entry that is not the last,
\* keeps its role, text and final flag
C19_OnlyTailMutated ==
  [][ LET n == Len(messages)
      IN  /\ Len(messages') \in {n, n + 1}
          /\ \A i \in 1..n :
               (i < n \/ messages[i].isFinal) => messages'[i] = messages[i]
    ]_vars

\* a delta of the role of a final last entry has opened a new entry, and an
\* earlier open entry of the other role is still as it was
C19_Witness ==
  /\ Len(messages) = 3
  /\ messages[1] = [role |-> "model", text |-> "Hello!", isFinal |-> FALSE]
  /\ messages[2] = [role |-> "user", text |-> "Hi", isFinal |-> TRUE]
  /\ messages[3] = [role |-> "user", text |-> "Hi", isFinal |-> FALSE]

\* C20: in a session that stays connected, once the audio payloads have been
\* dealt with (each played to its end or failed to decode), isSpeaking
\* becomes false and stays false
C20_EventuallyIdle ==
  ([]isConnected) => <>[](~isSpeaking)

(* =================== Properties of the connection state ================ *)

\* C21: isConnected becomes true only in onopen, the callback of a socket
\* that was connecting, and every onopen leaves isConnected true and the mode
\* Conversation; connect(), up to and after its await, never sets isConnected
C21_ConnectedOnOpen ==
  [][ /\ (~isConnected /\ isConnected') => lastOp' = "onopen"
      /\ lastOp' = "onopen" =>
           /\ isConnected' /\ currentMode' = CONVERSATION
           /\ \E k \in Attempts :
                transport[k] = "connecting" /\ transport'[k] # "connecting"
      /\ lastOp' \in {"connect", "micGranted", "micDenied"} =>
           (isConnected' => isConnected)
    ]_vars

\* the socket of the first attempt has just opened
C21_Witness ==
  /\ lastOp = "onopen"
  /\ nAttempts = 1
  /\ transport[1] = "open"
  /\ isConnected /\ currentMode = CONVERSATION

(* ================== Properties of other tools' calls =================== *)

\* C22: a call of a tool other than setTeachingMode is ignored: a message
\* whose calls are all of other tools changes neither the mode, the
\* transcript, the playback state nor the acknowledgments sent; no
\* acknowledgment ever carries another tool's name; and in a message that
\* also has a setTeachingMode call, that call is acknowledged and applied
C22_OtherToolIgnored ==
  [][ (lastOp' = "onmessage" /\ nDelivered' = nDelivered + 1) =>
        LET calls == lastMsg'.toolCalls
            others == {i \in 1..Len(calls) :
                         calls[i].name # "setTeachingMode"}
            mine == (1..Len(calls)) \ others
            new == {j \in 1..Len(toolResponses') : j > Len(toolResponses)}
        IN  /\ \A j \in new : toolResponses'[j].name = "setTeachingMode"
            /\ Cardinality(new) = Cardinality(mine)
            /\ (others # {} /\ mine = {}) =>
                 /\ toolResponses' = toolResponses
                 /\ currentMode' = currentMode
                 /\ messages' = messages
                 /\ scheduledSourcesRef' = scheduledSourcesRef
                 /\ nextStartTimeRef' = nextStartTimeRef
                 /\ isSpeaking' = isSpeaking
                 /\ isConnected' = isConnected
                 /\ error' = error
            /\ (others # {} /\ mine # {}) =>
                 \A i \in mine :
                   \E j \in new :
                     /\ toolResponses'[j].id = calls[i].id
                     /\ (calls[i].mode \in {CONVERSATION, CORRECTION,
                                            EXPLANATION, IDLE}
                           => currentMode' = calls[i].mode)
    ]_vars

\* a message with a call of another tool and a setTeachingMode call: only the
\* second was acknowledged, and it was applied
C22_Witness ==
  /\ lastMsg = ToolMsg(<< Call(1, "otherTool", CORRECTION),
                          Call(2, setTeachingModeName, EXPLANATION) >>)
  /\ toolResponses =
       << [session |-> 1, id |-> 2, name |-> "setTeachingMode"] >>
  /\ currentMode = EXPLANATION

(* ===================== Properties of capture frames ==================== *)

\* C23: the frames of a session reach the socket in the order they were
\* produced in: a frame produced while the socket is open is sent in its own
\* step, waiting for nothing, and the frames produced while the socket was
\* connecting are sent in that order when it opens
C23_FramesInOrder ==
  /\ [](\A i, j \in 1..Len(sentFrames) :
          (i < j /\ sentFrames[i][1] = sentFrames[j][1])
            => sentFrames[i][2] < sentFrames[j][2])
  /\ [][ /\ lastOp' = "onaudioprocess" =>
              \A k \in Attempts :
                (transport[k] = "open" /\ k \in {p.id : p \in processors}) =>
                  sentFrames' = Append(sentFrames, << k, nFrames' >>)
         /\ lastOp' = "onopen" =>
              \E k \in Attempts :
                /\ transport[k] = "connecting" /\ transport'[k] # "connecting"
                /\ LET q == thenQueue[k]
                       closes == {i \in 1..Len(q) : q[i].op = "close"}
                       n == IF closes = {} THEN Len(q)
                            ELSE (CHOOSE i \in closes :
                                    \A j \in closes : i <= j) - 1
                   IN  sentFrames' =
                         sentFrames \o [i \in 1..n |-> << k, q[i].frame >>]
       ]_vars

\* two frames produced while the socket was connecting have been sent, in
\* their order, by the opening of the socket
C23_Witness ==
  /\ lastOp = "onopen"
  /\ sentFrames = << << 1, 1 >>, << 1, 2 >> >>

(* ==================== Properties of the speaking state ================= *)

\* C24: whenever a source is in the scheduled set, isSpeaking is true
C24_SpeakingWhileScheduled ==
  scheduledSourcesRef # {} => isSpeaking

(* ==================== Properties of cancelled audio ==================== *)

\* C25: after a disconnect() nothing is in the scheduled set, and a payload
\* whose decode was pending when an interruption stopped the playback is
\* never in the scheduled set afterwards
C25_CancelledNeverPlays ==
  /\ [](discAt # "none" => scheduledSourcesRef = {})
  /\ \A id \in 1..MaxAudioMsgs :
       []((/\ lastOp = "onmessage"
           /\ lastMsg.interrupted /\ lastMsg.audio = "none"
           /\ \E p \in pendingDecodes : p.id = id)
          => [](id \notin scheduledSourcesRef))

(* ==================== Properties of the transcript text ================ *)

\* C26: as long as no interruption has added its marker, the texts of a
\* role's entries, concatenated in the log's order, are that role's fragments
\* of the messages received, concatenated in the order of arrival
C26_NoTextLost ==
  (\A i \in 1..Len(events) : ~events[i].interrupted) =>
    LET Logged(r) ==
          LET f[i \in 0..Len(messages)] ==
                IF i = 0 THEN ""
                ELSE f[i - 1] \o
                       (IF messages[i].role = r THEN messages[i].text ELSE "")
          IN  f[Len(messages)]
        Received(r) ==
          LET g[i \in 0..Len(events)] ==
                IF i = 0 THEN ""
                ELSE g[i - 1] \o
                       (IF r = "user" THEN events[i].inputTx
                        ELSE events[i].outputTx)
          IN  g[Len(events)]
    IN  /\ Logged("user") = Received("user")
        /\ Logged("model") = Received("model")

(* ================ Properties of the mode and the connection ============ *)

\* C27: while connected the mode is Conversation, Correction or Explanation,
\* and while not connected it is Idle
C27_IdleIffDisconnected ==
  /\ isConnected => currentMode \in {CONVERSATION, CORRECTION, EXPLANATION}
  /\ ~isConnected => currentMode = IDLE

====
